---- MODULE Spec2Model ----
(***************************************************************************)
(* A model of src/langchain5Q.py: a command-line chat assistant that keeps *)
(* a conversation log and a table of user facts in PostgreSQL and prompts  *)
(* a hosted chat model with them.                                          *)
(*                                                                         *)
(* Text is modelled as a sequence of one-character strings, so that the    *)
(* Python string operations the program uses (lower, in, split, strip,     *)
(* capitalize) are computed character by character.                        *)
(***************************************************************************)
EXTENDS Integers, Sequences, FiniteSets, TLC

VARIABLES
    conversations,  \* table conversations, rows in insertion order
    user_facts,     \* table user_facts, rows in insertion order
    now,            \* the database server's clock, read by NOW()
    ret,            \* the last call: its name, arguments and outcome
    pc,             \* per concurrent caller of upsert_user_fact: its position
    txn             \* per concurrent caller: arguments and what its SELECT saw

vars == <<conversations, user_facts, now, ret, pc, txn>>

(***************************************************************************)
(* Python str operations                                                   *)
(***************************************************************************)
UpperAlpha ==
    <<"A","B","C","D","E","F","G","H","I","J","K","L","M",
      "N","O","P","Q","R","S","T","U","V","W","X","Y","Z">>

LowerAlpha ==
    <<"a","b","c","d","e","f","g","h","i","j","k","l","m",
      "n","o","p","q","r","s","t","u","v","w","x","y","z">>

Whitespace == {" ", "\t", "\n", "\r"}

LowerChar(c) ==
    IF \E i \in 1..26 : UpperAlpha[i] = c
    THEN LowerAlpha[CHOOSE i \in 1..26 : UpperAlpha[i] = c]
    ELSE c

UpperChar(c) ==
    IF \E i \in 1..26 : LowerAlpha[i] = c
    THEN UpperAlpha[CHOOSE i \in 1..26 : LowerAlpha[i] = c]
    ELSE c

\* str.lower()
Lower(s) == [i \in 1..Len(s) |-> LowerChar(s[i])]

\* str.capitalize(): first character upper-cased, the rest lower-cased
Capitalize(s) ==
    [i \in 1..Len(s) |-> IF i = 1 THEN UpperChar(s[i]) ELSE LowerChar(s[i])]

\* s[i:]
From(s, i) == SubSeq(s, i, Len(s))

StartsAt(s, sub, i) ==
    /\ i + Len(sub) - 1 <= Len(s)
    /\ SubSeq(s, i, i + Len(sub) - 1) = sub

\* str.find(sub) + 1: the first position of sub in s, 0 when absent
Find(s, sub) ==
    LET hits == {i \in 1..(Len(s) - Len(sub) + 1) : StartsAt(s, sub, i)}
    IN  IF hits = {} THEN 0 ELSE CHOOSE i \in hits : \A j \in hits : i <= j

\* sub in s
Contains(s, sub) == Find(s, sub) # 0

\* s.split(sep)[-1]: split scans left to right over non-overlapping
\* occurrences of sep; the last piece follows the last one found.
RECURSIVE SplitLast(_, _)
SplitLast(s, sep) ==
    LET i == Find(s, sep)
    IN  IF i = 0 THEN s ELSE SplitLast(From(s, i + Len(sep)), sep)

\* s.split(sep)[0]: the text before the first occurrence of sep
SplitFirst(s, sep) ==
    LET i == Find(s, sep)
    IN  IF i = 0 THEN s ELSE SubSeq(s, 1, i - 1)

\* str.strip()
Strip(s) ==
    LET keep == {i \in 1..Len(s) : s[i] \notin Whitespace}
    IN  IF keep = {} THEN <<>>
        ELSE SubSeq(s, CHOOSE i \in keep : \A j \in keep : i <= j,
                       CHOOSE i \in keep : \A j \in keep : j <= i)

\* s.split(): the whitespace-delimited tokens of s
RECURSIVE SplitWhitespace(_)
SplitWhitespace(s) ==
    LET keep == {i \in 1..Len(s) : s[i] \notin Whitespace}
    IN  IF keep = {} THEN <<>>
        ELSE LET b == CHOOSE i \in keep : \A j \in keep : i <= j
                 ws == {i \in b..Len(s) : s[i] \in Whitespace}
                 e == IF ws = {} THEN Len(s) + 1
                      ELSE CHOOSE i \in ws : \A j \in ws : i <= j
             IN  <<SubSeq(s, b, e - 1)>> \o SplitWhitespace(From(s, e))

(***************************************************************************)
(* Literals of the program                                                 *)
(***************************************************************************)
\* line 100
TriggerName ==
    <<"m","y"," ","n","a","m","e"," ","i","s">>

\* line 103
TriggerProfession ==
    <<"i"," ","a","m"," ","a">>

\* line 106
TriggerLocation ==
    <<"i"," ","l","i","v","e"," ","i","n">>

\* line 109
TriggerMoved ==
    <<"m","o","v","e","d"," ","t","o">>

\* lines 102, 105, 108, 111: the fact keys
KeyName ==
    <<"n","a","m","e">>

KeyProfession ==
    <<"p","r","o","f","e","s","s","i","o","n">>

KeyLocation ==
    <<"l","o","c","a","t","i","o","n">>

\* line 126
UserFactsPrefix ==
    <<"U","s","e","r"," ","f","a","c","t","s",":"," ">>

\* line 126
NoKnownFacts ==
    <<"N","o"," ","k","n","o","w","n"," ","f","a","c","t","s"," ","a","b",
      "o","u","t"," ","t","h","e"," ","u","s","e","r",".">>

\* line 117
SESSION_ID == "default_session"

\* line 130: limit=5
HistoryLimit == 5

\* fetchone() on an empty result, and Python's None
None == 0

(***************************************************************************)
(* The two tables (lines 28-47).  A table is the sequence of its rows in   *)
(* insertion order; id SERIAL numbers the rows from 1, and no statement of *)
(* the program deletes a row.                                              *)
(***************************************************************************)
Rows(table) == {table[i] : i \in 1..Len(table)}

\* a bug: the INSERT is run on a connection that is never committed
save_message_NotCommitted(table, t, session_id, role, content) == table

\* lines 52-57: INSERT INTO conversations; created_at DEFAULT NOW()
save_message(table, t, session_id, role, content) ==
    Append(table, [id |-> Len(table) + 1, session_id |-> session_id,
                   role |-> role, content |-> content, created_at |-> t])

\* lines 62-67: ORDER BY created_at DESC LIMIT :limit.  The order of rows
\* with equal created_at is left to the database: every order is a result.
RECURSIVE OrderByCreatedAtDesc(_, _)
OrderByCreatedAtDesc(rows, limit) ==
    IF limit = 0 \/ rows = {} THEN {<<>>}
    ELSE LET newest == {r \in rows : \A q \in rows : q.created_at <= r.created_at}
         IN  UNION {{<<r>> \o rest :
                        rest \in OrderByCreatedAtDesc(rows \ {r}, limit - 1)} :
                    r \in newest}

\* reversed(rows)
Reversed(s) == [i \in 1..Len(s) |-> s[Len(s) + 1 - i]]

\* lines 60-68: the results get_last_messages can return
get_last_messages(table, session_id, limit) ==
    LET mine == {r \in Rows(table) : r.session_id = session_id}
    IN  {[i \in 1..Len(rows) |->
             [role |-> Reversed(rows)[i].role,
              content |-> Reversed(rows)[i].content]] :
         rows \in OrderByCreatedAtDesc(mine, limit)}

\* lines 73-76: SELECT id ... fetchone(): the id of a matching row (any of
\* them, were there several), None when there is none
SelectFactId(table, session_id, key) ==
    LET ids == {r.id : r \in {q \in Rows(table) :
                    q.session_id = session_id /\ q.fact_key = key}}
    IN  IF ids = {} THEN {None} ELSE ids

\* a bug: the UPDATE refreshes updated_at and forgets fact_value
UpdateFact_TimestampOnly(table, t, id, value) ==
    [i \in 1..Len(table) |->
        IF table[i].id = id
        THEN [table[i] EXCEPT !.updated_at = t]
        ELSE table[i]]

\* a bug: the UPDATE has no WHERE clause
UpdateFact_NoWhere(table, t, id, value) ==
    [i \in 1..Len(table) |->
        [table[i] EXCEPT !.fact_value = value, !.updated_at = t]]

\* lines 78-81: UPDATE user_facts SET fact_value, updated_at WHERE id = :id
UpdateFact(table, t, id, value) ==
    [i \in 1..Len(table) |->
        IF table[i].id = id
        THEN [table[i] EXCEPT !.fact_value = value, !.updated_at = t]
        ELSE table[i]]

\* lines 83-86: INSERT INTO user_facts; updated_at DEFAULT NOW()
InsertFact(table, t, session_id, key, value) ==
    Append(table, [id |-> Len(table) + 1, session_id |-> session_id,
                   fact_key |-> key, fact_value |-> value, updated_at |-> t])

\* a bug: the write ignores what the SELECT saw and always inserts
UpsertWrite_AlwaysInsert(table, t, session_id, key, value, existing) ==
    Append(table, [id |-> Len(table) + 1, session_id |-> session_id,
                   fact_key |-> key, fact_value |-> value, updated_at |-> t])

\* lines 77-86: the write of upsert_user_fact, given what its SELECT saw
UpsertWrite(table, t, session_id, key, value, existing) ==
    IF existing # None
    THEN UpdateFact(table, t, existing, value)
    ELSE InsertFact(table, t, session_id, key, value)

\* lines 71-86: the tables upsert_user_fact can leave, run alone
upsert_user_fact(table, t, session_id, key, value) ==
    {UpsertWrite(table, t, session_id, key, value, existing) :
        existing \in SelectFactId(table, session_id, key)}

\* every order of the elements of a set
RECURSIVE Permutations_(_)
Permutations_(S) ==
    IF S = {} THEN {<<>>}
    ELSE UNION {{<<x>> \o rest : rest \in Permutations_(S \ {x})} : x \in S}

\* line 95: {row[0]: row[1] for row in rows}, a dict as the sequence of its
\* items: a key stands where it first occurs and keeps its last value
RECURSIVE DictOf(_)
DictOf(rows) ==
    IF rows = <<>> THEN <<>>
    ELSE LET n == Len(rows)
             d == DictOf(SubSeq(rows, 1, n - 1))
             k == rows[n].fact_key
             v == rows[n].fact_value
         IN  IF \E i \in 1..Len(d) : d[i][1] = k
             THEN [i \in 1..Len(d) |-> IF d[i][1] = k THEN <<k, v>> ELSE d[i]]
             ELSE Append(d, <<k, v>>)

\* lines 89-95: the dicts get_user_facts can return; the SELECT has no
\* ORDER BY, so the rows come in any order
get_user_facts(table, session_id) ==
    {DictOf(rows) : rows \in Permutations_({r \in Rows(table) :
                                             r.session_id = session_id})}

\* dict lookup
DictKeys(d) == {d[i][1] : i \in 1..Len(d)}
DictGet(d, k) == d[CHOOSE i \in 1..Len(d) : d[i][1] = k][2]

(***************************************************************************)
(* Fact extraction (lines 98-111)                                          *)
(***************************************************************************)
\* line 101: user_input.split("my name is")[-1].strip().split()
NameTokens(user_input) ==
    SplitWhitespace(Strip(SplitLast(user_input, TriggerName)))

\* lines 104, 107, 110: user_input.split(trigger)[-1].strip().split('.')[0]
ValueAfter(user_input, trigger) ==
    SplitFirst(Strip(SplitLast(user_input, trigger)), <<".">>)

\* a bug: the upsert is not guarded by its "if trigger in lower"
UpsertIf_Unconditional(fires, tables, t, session_id, key, value) ==
    UNION {{UpsertWrite(tb, t, session_id, key, value, existing) :
               existing \in SelectFactId(tb, session_id, key)} : tb \in tables}

\* one "if trigger in lower: upsert_user_fact(...)" over the tables the
\* statements before it can have left
UpsertIf(fires, tables, t, session_id, key, value) ==
    IF fires
    THEN UNION {upsert_user_fact(tb, t, session_id, key, value) : tb \in tables}
    ELSE tables

\* lines 98-111: the outcomes of extract_and_store_facts: the table it
\* leaves, and whether it raised (line 101 indexes [0] into the tokens and
\* raises IndexError when there is none; nothing was written before it)
extract_and_store_facts(table, t, session_id, user_input) ==
    LET lower == Lower(user_input)
    IN  IF Contains(lower, TriggerName) /\ NameTokens(user_input) = <<>>
        THEN {[facts |-> table, raised |-> TRUE]}
        ELSE LET t1 == UpsertIf(Contains(lower, TriggerName), {table}, t,
                           session_id, KeyName,
                           IF NameTokens(user_input) = <<>> THEN <<>>
                           ELSE NameTokens(user_input)[1])
                 t2 == UpsertIf(Contains(lower, TriggerProfession), t1, t,
                           session_id, KeyProfession,
                           ValueAfter(user_input, TriggerProfession))
                 t3 == UpsertIf(Contains(lower, TriggerLocation), t2, t,
                           session_id, KeyLocation,
                           ValueAfter(user_input, TriggerLocation))
                 t4 == UpsertIf(Contains(lower, TriggerMoved), t3, t,
                           session_id, KeyLocation,
                           ValueAfter(user_input, TriggerMoved))
             IN  {[facts |-> tb, raised |-> FALSE] : tb \in t4}

(***************************************************************************)
(* Prompt assembly (lines 124-137)                                         *)
(***************************************************************************)
\* line 125: ", ".join(f"{k.capitalize()} = {v}" for k, v in facts.items())
RECURSIVE FactsStr(_)
FactsStr(facts) ==
    IF facts = <<>> THEN <<>>
    ELSE LET item == Capitalize(facts[1][1]) \o <<" ", "=", " ">> \o facts[1][2]
         IN  IF Len(facts) = 1 THEN item
             ELSE item \o <<",", " ">> \o FactsStr(Tail(facts))

\* line 126
SystemPrompt(facts) ==
    IF facts # <<>> THEN UserFactsPrefix \o FactsStr(facts) ELSE NoKnownFacts

\* lines 131-135
HistoryMessage(msg) ==
    IF msg.role = "user"
    THEN [type |-> "human", content |-> msg.content]
    ELSE [type |-> "ai", content |-> msg.content]

\* lines 128-137: the list handed to chat.invoke
BuildMessages(facts, history, user_input) ==
    <<[type |-> "system", content |-> SystemPrompt(facts)]>>
    \o [i \in 1..Len(history) |-> HistoryMessage(history[i])]
    \o <<[type |-> "human", content |-> user_input]>>

(***************************************************************************)
(* Inputs and bounds                                                       *)
(***************************************************************************)
MaxLog == 4         \* rows of conversations written by direct save_message calls
MaxClock == 2       \* the last instant of the server clock
MaxLimit == 3       \* the largest limit passed to get_last_messages directly
MaxChatLog == 7     \* rows of conversations written by chat turns
MaxChatClock == 4   \* the last instant of the server clock in the chat loop
MaxExtracts == 1    \* successive extract_and_store_facts calls
MaxSeqClock == 3    \* instants of a run whose every write takes one
MaxRaceRows == 3    \* rows of user_facts written by racing callers

Sessions == {SESSION_ID, "other_session"}
Roles == {"user", "assistant"}
Keys == {KeyName, KeyProfession, KeyLocation}

LogContents == {<<"h","i">>, <<"o","k">>}
Replies == {<<"o","k">>, <<"H","e","l","l","o"," ","S","a","m">>}
FactValues == {<<>>, <<"R","o","m","e">>}

SamUtterance ==
    <<"M","y"," ","n","a","m","e"," ","i","s"," ","S","a","m",".">>

AliceUtterance ==
    <<"H","i",","," ","m","y"," ","n","a","m","e"," ","i","s"," ","A","l",
      "i","c","e"," ","a","n","d"," ","I"," ","l","i","v","e"," ","i","n",
      " ","B","o","s","t","o","n",".">>

DenverUtterance ==
    <<"I"," ","m","o","v","e","d"," ","t","o"," ","D","e","n","v","e","r",
      ".">>

HelloUtterance ==
    <<"h","e","l","l","o"," ","t","h","e","r","e">>

BobUtterance ==
    <<"h","i","."," ","m","y"," ","n","a","m","e"," ","i","s"," ","B","o",
      "b"," ","a","n","d"," ","i"," ","l","i","v","e"," ","i","n"," ","R",
      "o","m","e","."," ","b","y","e">>

TwoPlacesUtterance ==
    <<"i"," ","l","i","v","e"," ","i","n"," ","R","o","m","e","."," ","t",
      "h","e","n"," ","m","o","v","e","d"," ","t","o"," ","O","s","l","o",
      ".">>

\* the four triggers as the program spells them, and with a capital
TriggerForms ==
    {TriggerName, TriggerProfession, TriggerLocation, TriggerMoved,
     <<"M","y"," ","n","a","m","e"," ","i","s">>,
     <<"I"," ","a","m"," ","a">>,
     <<"I"," ","l","i","v","e"," ","i","n">>,
     <<"M","o","v","e","d"," ","t","o">>}

Prefixes == {<<>>, <<"H","i",","," ">>}

Suffixes ==
    {<<>>, <<" ">>, <<" ", "\t">>, <<" ","R","o","m","e">>, <<" ","R","o","m","e","."," ","o","k">>}

\* what the user may type: nothing, small talk, and a trigger phrase (or
\* none) between a prefix and a suffix
Utterances ==
    {SamUtterance, AliceUtterance, DenverUtterance, HelloUtterance,
     BobUtterance, TwoPlacesUtterance}
    \cup {p \o g \o x : p \in Prefixes, g \in TriggerForms \cup {<<>>},
                       x \in Suffixes}

ChatUtterances == {SamUtterance, HelloUtterance, TriggerName}
SeqUtterances == {SamUtterance, HelloUtterance, TwoPlacesUtterance}

Callers == {"A", "B"}
RaceValues == {<<"R","o","m","e">>, <<"O","s","l","o">>}

NoTxn == [session_id |-> SESSION_ID, key |-> KeyName, value |-> <<>>,
          existing |-> None, stale |-> FALSE]

(***************************************************************************)
(* The state after the module is loaded: create_tables() (line 49) has run *)
(* against an empty database.                                              *)
(***************************************************************************)
Init ==
    /\ conversations = <<>>
    /\ user_facts = <<>>
    /\ now = 0
    /\ ret = [op |-> "create_tables"]
    /\ pc = [c \in Callers |-> "idle"]
    /\ txn = [c \in Callers |-> NoTxn]

(***************************************************************************)
(* The calls, run one at a time.  dt is the time the server clock moved    *)
(* since the call before; in a chat turn dt2 is the time the call of the   *)
(* completion endpoint took, whether it returned or raised.                *)
(***************************************************************************)
\* lines 52-57
SaveMessage(session_id, role, content, dt) ==
    /\ conversations' = save_message(conversations, now + dt, session_id, role, content)
    /\ now' = now + dt
    /\ ret' = [op |-> "save_message", session_id |-> session_id]
    /\ UNCHANGED <<user_facts, pc, txn>>

\* lines 60-68
GetLastMessages(session_id, limit) ==
    /\ \E value \in get_last_messages(conversations, session_id, limit) :
          ret' = [op |-> "get_last_messages", session_id |-> session_id,
                  limit |-> limit, value |-> value]
    /\ UNCHANGED <<conversations, user_facts, now, pc, txn>>

\* lines 71-86
UpsertUserFact(session_id, key, value, dt) ==
    /\ user_facts' \in upsert_user_fact(user_facts, now + dt, session_id, key, value)
    /\ now' = now + dt
    /\ ret' = [op |-> "upsert_user_fact", session_id |-> session_id,
               key |-> key, value |-> value]
    /\ UNCHANGED <<conversations, pc, txn>>

\* lines 89-95
GetUserFacts(session_id) ==
    /\ \E value \in get_user_facts(user_facts, session_id) :
          ret' = [op |-> "get_user_facts", session_id |-> session_id,
                  value |-> value]
    /\ UNCHANGED <<conversations, user_facts, now, pc, txn>>

\* lines 98-111
ExtractAndStoreFacts(session_id, user_input, dt) ==
    /\ \E o \in extract_and_store_facts(user_facts, now + dt, session_id, user_input) :
          /\ user_facts' = o.facts
          /\ ret' = [op |-> "extract_and_store_facts", session_id |-> session_id,
                     user_input |-> user_input, raised |-> o.raised]
    /\ now' = now + dt
    /\ UNCHANGED <<conversations, pc, txn>>

\* lines 120-141: one turn.  An exception of line 121 or of line 139 ends the
\* turn where it is raised; what was written before it stays written.
ChatWithMemory(user_input, dt1, dt2) ==
    /\ \E o \in extract_and_store_facts(user_facts, now + dt1, SESSION_ID, user_input) :
          IF o.raised
          THEN /\ user_facts' = o.facts
               /\ conversations' = conversations
               /\ now' = now + dt1
               /\ ret' = [op |-> "chat_with_memory", user_input |-> user_input,
                          outcome |-> "IndexError", messages |-> <<>>,
                          value |-> <<>>]
          ELSE LET logged == save_message(conversations, now + dt1, SESSION_ID,
                                          "user", user_input)
               IN  \E facts \in get_user_facts(o.facts, SESSION_ID),
                      history \in get_last_messages(logged, SESSION_ID, HistoryLimit) :
                      LET messages == BuildMessages(facts, history, user_input)
                      IN  /\ user_facts' = o.facts
                          /\ \/ /\ conversations' = logged
                                /\ now' = now + dt1 + dt2
                                /\ ret' = [op |-> "chat_with_memory",
                                           user_input |-> user_input,
                                           outcome |-> "endpoint_error",
                                           messages |-> messages, value |-> <<>>]
                             \/ \E reply \in Replies :
                                /\ conversations' =
                                      save_message(logged, now + dt1 + dt2,
                                                   SESSION_ID, "assistant", reply)
                                /\ now' = now + dt1 + dt2
                                /\ ret' = [op |-> "chat_with_memory",
                                           user_input |-> user_input,
                                           outcome |-> "ok",
                                           messages |-> messages, value |-> reply]
    /\ UNCHANGED <<pc, txn>>

(***************************************************************************)
(* upsert_user_fact run by concurrent callers, each in its own transaction *)
(* (engine.begin(), line 72) at PostgreSQL's default isolation level: the  *)
(* SELECT reads what is committed, and the write shows to the others when  *)
(* it commits.  A transaction that fails before its commit leaves nothing. *)
(***************************************************************************)
\* lines 73-76
RaceSelect(c, session_id, key, value) ==
    /\ pc[c] # "selected"
    /\ \E existing \in SelectFactId(user_facts, session_id, key) :
          txn' = [txn EXCEPT ![c] = [session_id |-> session_id, key |-> key,
                                     value |-> value, existing |-> existing,
                                     stale |-> FALSE]]
    /\ pc' = [pc EXCEPT ![c] = "selected"]
    /\ ret' = [op |-> "upsert_user_fact", session_id |-> session_id,
               key |-> key, value |-> value]
    /\ UNCHANGED <<conversations, user_facts, now>>

\* lines 77-86 and the commit that ends the with block.  Every caller that
\* has read the same (session, key) and not yet written now holds a stale read.
RaceWrite(c, dt) ==
    /\ pc[c] = "selected"
    /\ user_facts' = UpsertWrite(user_facts, now + dt, txn[c].session_id,
                                 txn[c].key, txn[c].value, txn[c].existing)
    /\ now' = now + dt
    /\ pc' = [pc EXCEPT ![c] = "committed"]
    /\ txn' = [d \in Callers |->
                  IF /\ d # c
                     /\ pc[d] = "selected"
                     /\ txn[d].session_id = txn[c].session_id
                     /\ txn[d].key = txn[c].key
                  THEN [txn[d] EXCEPT !.stale = TRUE]
                  ELSE txn[d]]
    /\ UNCHANGED <<conversations, ret>>

\* the transaction is rolled back
RaceAbort(c) ==
    /\ pc[c] = "selected"
    /\ pc' = [pc EXCEPT ![c] = "aborted"]
    /\ UNCHANGED <<conversations, user_facts, now, ret, txn>>

(***************************************************************************)
(* Specifications                                                          *)
(***************************************************************************)
\* the command-line loop (lines 146-151): one chat turn after another.  The
\* clock may stand still between two turns; the call of the completion
\* endpoint takes an instant.
Next ==
    \E user_input \in ChatUtterances, dt1 \in 0..1 :
        /\ Len(conversations) + 2 <= MaxChatLog
        /\ now + dt1 + 1 <= MaxChatClock
        /\ ChatWithMemory(user_input, dt1, 1)

Spec == Init /\ [][Next]_vars

\* the conversation log, called directly
NextLog ==
    \/ \E session_id \in Sessions, role \in Roles, content \in LogContents,
          dt \in 0..1 :
          /\ Len(conversations) < MaxLog
          /\ now + dt <= MaxClock
          /\ SaveMessage(session_id, role, content, dt)
    \/ \E session_id \in Sessions, limit \in 0..MaxLimit :
          GetLastMessages(session_id, limit)

SpecLog == Init /\ [][NextLog]_vars

\* the fact tables extraction is run on: empty, and with facts upserted
\* before for either session or both
PriorFacts ==
    LET mine == upsert_user_fact(<<>>, 0, SESSION_ID, KeyLocation,
                                 <<"B","o","s","t","o","n">>)
        other == upsert_user_fact(<<>>, 0, "other_session", KeyName,
                                  <<"B","o","b">>)
        both == UNION {upsert_user_fact(tb, 0, "other_session", KeyName,
                                        <<"B","o","b">>) : tb \in mine}
    IN  {<<>>} \cup mine \cup other \cup both

InitExtract ==
    /\ conversations = <<>>
    /\ user_facts \in PriorFacts
    /\ now = 0
    /\ ret = [op |-> "create_tables"]
    /\ pc = [c \in Callers |-> "idle"]
    /\ txn = [c \in Callers |-> NoTxn]

\* fact extraction over every utterance
NextExtract ==
    \/ \E session_id \in Sessions, user_input \in Utterances :
          /\ now < MaxExtracts
          /\ ExtractAndStoreFacts(session_id, user_input, 1)
    \/ \E session_id \in Sessions : GetUserFacts(session_id)

SpecExtract == InitExtract /\ [][NextExtract]_vars

\* every writer of user_facts, one call at a time
NextSeq ==
    \/ \E session_id \in Sessions, key \in Keys, value \in FactValues :
          /\ now < MaxSeqClock
          /\ UpsertUserFact(session_id, key, value, 1)
    \/ \E session_id \in Sessions : GetUserFacts(session_id)
    \/ \E session_id \in Sessions, user_input \in SeqUtterances :
          /\ now < MaxSeqClock
          /\ ExtractAndStoreFacts(session_id, user_input, 1)
    \/ \E user_input \in SeqUtterances :
          /\ now + 2 <= MaxSeqClock
          /\ ChatWithMemory(user_input, 1, 1)

SpecSeq == Init /\ [][NextSeq]_vars

\* two callers of upsert_user_fact on one (session, key), interleaved
NextRace ==
    \/ \E c \in Callers, value \in RaceValues :
          /\ Len(user_facts) < MaxRaceRows
          /\ RaceSelect(c, SESSION_ID, KeyLocation, value)
    \/ \E c \in Callers, dt \in 0..1 :
          /\ now + dt <= MaxClock
          /\ RaceWrite(c, dt)
    \/ \E c \in Callers : RaceAbort(c)

SpecRace == Init /\ [][NextRace]_vars

(***************************************************************************)
(* Properties                                                              *)
(***************************************************************************)
\* the rows of a session as [role, content], oldest insertion first
SessionLog(table, session_id) ==
    LET mine == SelectSeq(table, LAMBDA r : r.session_id = session_id)
    IN  [i \in 1..Len(mine) |-> [role |-> mine[i].role, content |-> mine[i].content]]

\* the (key, value) pairs a session holds
FactsOf(table, session_id) ==
    {<<r.fact_key, r.fact_value>> : r \in {q \in Rows(table) : q.session_id = session_id}}

\* some (session, key) has more than one row
HasDuplicateFact(table) ==
    \E i, j \in 1..Len(table) :
        /\ i < j
        /\ table[i].session_id = table[j].session_id
        /\ table[i].fact_key = table[j].fact_key

NoTrigger(user_input) ==
    /\ ~Contains(Lower(user_input), TriggerName)
    /\ ~Contains(Lower(user_input), TriggerProfession)
    /\ ~Contains(Lower(user_input), TriggerLocation)
    /\ ~Contains(Lower(user_input), TriggerMoved)

\* C1: get_last_messages(session, limit) returns at most limit entries, of
\* that session only, oldest first, and exactly the last min(limit, count)
\* rows of the session's log in insertion order (nothing for limit 0, all
\* rows for a limit above the count), created_at being non-decreasing in
\* insertion order and possibly equal.
C1_RecentIsSuffix ==
    ret.op = "get_last_messages" =>
        LET full == SessionLog(conversations, ret.session_id)
            n == Len(full)
            k == IF ret.limit < n THEN ret.limit ELSE n
        IN  /\ Len(ret.value) <= ret.limit
            /\ ret.value = SubSeq(full, n - k + 1, n)

\* C2: upsert_user_fact(session, key, value) followed at once by
\* get_user_facts(session), with no other writer: the mapping returned has
\* key mapped to the value just written, and every other key of the session
\* mapped as before the upsert.
C2_UpsertThenGet ==
    [][ret'.op = "upsert_user_fact" =>
        \A d \in get_user_facts(user_facts', ret'.session_id) :
            /\ ret'.key \in DictKeys(d)
            /\ DictGet(d, ret'.key) = ret'.value
            /\ \A d0 \in get_user_facts(user_facts, ret'.session_id) :
                  /\ DictKeys(d) = DictKeys(d0) \cup {ret'.key}
                  /\ \A k \in DictKeys(d0) \ {ret'.key} :
                        DictGet(d, k) = DictGet(d0, k)]_vars

\* C2 witness: an upsert has overwritten the value of a key stored earlier,
\* in a session that holds another key as well
C2_Witness ==
    /\ ret.op = "upsert_user_fact"
    /\ \E r \in Rows(user_facts) :
          /\ r.session_id = ret.session_id
          /\ r.fact_key = ret.key
          /\ r.fact_value = ret.value
          /\ r.id < Len(user_facts)
    /\ \E r \in Rows(user_facts) :
          r.session_id = ret.session_id /\ r.fact_key # ret.key

\* C3: from no facts and no history, one successful chat_with_memory("My
\* name is Sam.") leaves exactly two conversation rows, a user row then an
\* assistant row, and exactly one fact row: name = "Sam".
C3_SamTurn ==
    [][(/\ conversations = <<>>
        /\ user_facts = <<>>
        /\ ret'.op = "chat_with_memory"
        /\ ret'.user_input = SamUtterance
        /\ ret'.outcome = "ok") =>
       (/\ Len(conversations') = 2
        /\ conversations'[1].role = "user"
        /\ conversations'[1].content = SamUtterance
        /\ conversations'[2].role = "assistant"
        /\ Len(user_facts') = 1
        /\ user_facts'[1].fact_key = KeyName
        /\ user_facts'[1].fact_value = <<"S","a","m">>)]_vars

\* C4: from an empty fact store, extract_and_store_facts on "Hi, my name is
\* Alice and I live in Boston." leaves exactly name = "Alice" and
\* location = "Boston".
C4_AliceFacts ==
    [][(/\ ret'.op = "extract_and_store_facts"
        /\ ret'.user_input = AliceUtterance
        /\ FactsOf(user_facts, ret'.session_id) = {}) =>
       (/\ ~ret'.raised
        /\ FactsOf(user_facts', ret'.session_id) =
              {<<KeyName, <<"A","l","i","c","e">>>>,
               <<KeyLocation, <<"B","o","s","t","o","n">>>>})]_vars

\* C5: an utterance whose lower-cased text holds none of the four trigger
\* phrases makes extract_and_store_facts perform no upsert: every row of
\* user_facts, of every session, is as before the call.
C5_NoTriggerNoWrite ==
    [][(ret'.op = "extract_and_store_facts" /\ NoTrigger(ret'.user_input)) =>
       (user_facts' = user_facts /\ ~ret'.raised)]_vars

\* C5 witness: a call on an utterance without trigger, facts being stored
C5_Witness ==
    /\ ret.op = "extract_and_store_facts"
    /\ ret.user_input # <<>>
    /\ NoTrigger(ret.user_input)
    /\ FactsOf(user_facts, ret.session_id) # {}

\* C6: when the completion endpoint fails in chat_with_memory, nothing is
\* rolled back and nothing is retried: the log is the log before the turn
\* plus the user row of the turn, which ends it unanswered, no assistant
\* row is written, and the facts the extraction of the turn upserted are
\* stored.
C6_EndpointFailure ==
    [][(ret'.op = "chat_with_memory" /\ ret'.outcome = "endpoint_error") =>
       (/\ Len(conversations') = Len(conversations) + 1
        /\ SubSeq(conversations', 1, Len(conversations)) = conversations
        /\ conversations'[Len(conversations')].session_id = SESSION_ID
        /\ conversations'[Len(conversations')].role = "user"
        /\ conversations'[Len(conversations')].content = ret'.user_input
        /\ ret'.value = <<>>
        /\ \E t \in now..now' :
              user_facts' \in
                 {o.facts : o \in extract_and_store_facts(user_facts, t,
                                      SESSION_ID, ret'.user_input)})]_vars

\* C6 witness: the endpoint failed in a turn that stored a fact
C6_Witness ==
    /\ ret.op = "chat_with_memory"
    /\ ret.outcome = "endpoint_error"
    /\ ret.user_input = SamUtterance
    /\ Len(conversations) >= 3
    /\ conversations[Len(conversations)].role = "user"
    /\ \E r \in Rows(user_facts) : r.fact_key = KeyName /\ r.updated_at = now - 1

\* C7: with a single sequential writer (chat turns, extractions and upserts
\* one at a time), user_facts never holds two rows for one (session, key).
C7_OneRowPerKey == ~HasDuplicateFact(user_facts)

\* C7 witness: a row written first has been written again after a later
\* row was inserted
C7_Witness ==
    /\ Len(user_facts) >= 2
    /\ user_facts[1].updated_at > user_facts[2].updated_at

\* C8: a call of upsert_user_fact applies all or nothing even among
\* concurrent callers: a step changes user_facts only by the whole write of
\* one caller (one row inserted with its session, key and value, or the
\* value of the one row it read replaced); and a second row for a (session,
\* key) is only ever inserted by a caller whose SELECT was overtaken by
\* another caller's write.  Both races are reachable (the witness).
C8_RaceAllOrNothing ==
    [][user_facts' # user_facts =>
        \E c \in Callers :
            /\ pc[c] = "selected" /\ pc'[c] = "committed"
            /\ \/ /\ txn[c].existing = None
                  /\ Len(user_facts') = Len(user_facts) + 1
                  /\ SubSeq(user_facts', 1, Len(user_facts)) = user_facts
                  /\ user_facts'[Len(user_facts')].session_id = txn[c].session_id
                  /\ user_facts'[Len(user_facts')].fact_key = txn[c].key
                  /\ user_facts'[Len(user_facts')].fact_value = txn[c].value
                  /\ (HasDuplicateFact(user_facts') /\ ~HasDuplicateFact(user_facts))
                        => txn[c].stale
               \/ /\ txn[c].existing # None
                  /\ Len(user_facts') = Len(user_facts)
                  /\ \A i \in 1..Len(user_facts) :
                        IF user_facts[i].id = txn[c].existing
                        THEN /\ user_facts'[i].fact_value = txn[c].value
                             /\ user_facts'[i].fact_key = user_facts[i].fact_key
                             /\ user_facts'[i].session_id = user_facts[i].session_id
                        ELSE user_facts'[i] = user_facts[i]]_vars

\* C8 witness: the key has two rows (both callers inserted it), and both
\* callers then read the same row and wrote different values to it, the
\* later writer, whose read was stale, overwriting the earlier one's value
C8_Witness ==
    /\ HasDuplicateFact(user_facts)
    /\ \A c \in Callers : pc[c] = "committed"
    /\ txn["A"].existing # None
    /\ txn["A"].existing = txn["B"].existing
    /\ txn["A"].value # txn["B"].value
    /\ txn["B"].stale /\ ~txn["A"].stale
    /\ \E r \in Rows(user_facts) :
          r.id = txn["B"].existing /\ r.fact_value = txn["B"].value

KeyOf(trigger) ==
    IF trigger = TriggerName THEN KeyName
    ELSE IF trigger = TriggerProfession THEN KeyProfession
    ELSE KeyLocation

\* C9: for each of the four triggers, when the utterance holds the phrase
\* and nothing, or only whitespace, after it, extract_and_store_facts raises
\* no error and stores the empty string under the trigger's key.
C9_EmptyValueStored ==
    [][ret'.op = "extract_and_store_facts" =>
        \A g \in {TriggerName, TriggerProfession, TriggerLocation, TriggerMoved} :
            (/\ Contains(ret'.user_input, g)
             /\ Strip(SplitLast(ret'.user_input, g)) = <<>>) =>
            (/\ ~ret'.raised
             /\ <<KeyOf(g), <<>> >> \in FactsOf(user_facts', ret'.session_id))]_vars

\* C10: the list passed to the completion endpoint is one system message,
\* then the at most 5 entries of get_last_messages read after the user turn
\* was logged, each mapped by its role, then the current input as a final
\* user message; the current input is also the last entry of the history,
\* and the list holds at most 7 messages.
C10_PromptShape ==
    (ret.op = "chat_with_memory" /\ ret.outcome # "IndexError") =>
        LET m == ret.messages
            n == Len(m)
        IN  /\ 3 <= n /\ n <= HistoryLimit + 2
            /\ m[1].type = "system"
            /\ \A i \in 2..n : m[i].type \in {"human", "ai"}
            /\ m[n] = [type |-> "human", content |-> ret.user_input]
            /\ m[n - 1] = [type |-> "human", content |-> ret.user_input]

====
